---- MODULE Spec2Model ----
(***************************************************************************)
(* Windborne backend: the compute cache (app/core/cache.py), the upstream  *)
(* fetcher (app/services/upstream.py), the normalizer                      *)
(* (app/services/normalize.py) and the slice key of the points route       *)
(* (app/api/routes/points.py).                                             *)
(*                                                                         *)
(* Four specifications share the module:                                   *)
(*   Spec       concurrent cached_json calls of one process on Redis keys  *)
(*   SpecFetch  concurrent fetch_station_raw calls for one station         *)
(*   SpecNorm   normalize_rowwise on bounded documents                     *)
(*   SpecKey    the pre-digest key string of two station_points requests   *)
(* Every await of the code is one step of the calling request: the event   *)
(* loop may run any other request between two awaits, and nothing between  *)
(* two statements that do not await.                                       *)
(***************************************************************************)
EXTENDS Integers, Sequences, FiniteSets, TLC

(***************************************************************************)
(* Bounds of the model.                                                    *)
(***************************************************************************)
\* concurrent requests (coroutines) of the one process
NProcs == 2
\* requests started in one behaviour
MaxReqs == 3
\* rows a slice returned by the loader may hold: 0..MaxPts
MaxPts == 1
\* revisions of the station's document the upstream publishes: 1..MaxVer
MaxVer == 2
\* rows of a logical data set: 0..MaxRows
MaxRows == 2

Procs == 1..NProcs

\* the slice keys "slice:<md5>" of two different requests
Keys == {"slice:a", "slice:b"}

VARIABLES
    store,        \* Redis: key -> entry, for the slice keys
    locks,        \* _locks: key -> the request holding the key's asyncio.Lock, 0 when free
    pc,           \* request -> the await it is at
    pkey,         \* request -> the key of its cached_json call
    data,         \* request -> the loader's return value, held across the await of r.set
    result,       \* request -> what cached_json returned or raised
    nreq,         \* requests started so far
    loaderCalls,  \* history: key -> loader invocations so far
    clean         \* history: key -> no loader raised for it, and no entry of it expired or was written from outside

cacheVars == <<store, locks, pc, pkey, data, result, nreq, loaderCalls, clean>>

VARIABLES
    kv,           \* Redis: the station's entries "etag:S", "lastmod:S", "raw:S"
    upVer,        \* upstream: the version of the station's document it serves
    upHdrs,       \* upstream: the validators its 200 responses carry
    fpc,          \* call of fetch_station_raw -> the await it is at
    etag,         \* call -> what it read under "etag:S"
    last,         \* call -> what it read under "lastmod:S"
    resp,         \* call -> the response it got from client.get
    fres,         \* call -> what fetch_station_raw returned or raised
    nfetch        \* calls started so far

fetchVars == <<kv, upVer, upHdrs, fpc, etag, last, resp, fres, nfetch>>

VARIABLES
    nds,          \* the logical data set: time column name, time values, named columns
    nout,         \* normalize_rowwise of the data set's three encodings
    ndoc          \* a document of no particular shape and its normalize_rowwise

normVars == <<nds, nout, ndoc>>

VARIABLES
    kreq,         \* the two station_points requests
    kstore,       \* Redis: the slice entries, as a set of [key, val]
    kres          \* request -> what station_points returned

keyVars == <<kreq, kstore, kres>>

vars == <<cacheVars, fetchVars, normVars, keyVars>>

nonCacheVars == <<fetchVars, normVars, keyVars>>
nonFetchVars == <<cacheVars, normVars, keyVars>>
nonNormVars == <<cacheVars, fetchVars, keyVars>>
nonKeyVars == <<cacheVars, fetchVars, normVars>>

(***************************************************************************)
(* Values.                                                                 *)
(***************************************************************************)
\* r.get of a key that holds nothing: None
NoEntry == [t |-> "nil"]
\* bytes that are no JSON text, written by another writer of the key
CorruptBytes == [t |-> "bytes"]

\* What the loader of station_points returns (points.py:20-25): build_slice's
\* dict, {"points": [...], "points_count": n, "station": ..., ...}. With n > 0
\* every row's "timestamp" is a pandas Timestamp (series.py:18 converts the
\* column with pd.to_datetime, series.py:40 exports it with to_dict("records")).
Slices == [points_count : 0..MaxPts]

\* json.dumps accepts dict, list, str, int, float, bool and None, and raises
\* TypeError on anything else, a pandas Timestamp included.
Serializable(d) == d.points_count = 0

NoData == [points_count |-> -1]

\* json.dumps(data): the JSON text, or TypeError
json_dumps(d) ==
    IF Serializable(d) THEN [t |-> "json", text |-> d] ELSE [t |-> "TypeError"]

\* json.loads(cached): the value, or JSONDecodeError on bytes that are no JSON
json_loads(c) ==
    IF c.t = "json" THEN [t |-> "value", d |-> c.text] ELSE [t |-> "JSONDecodeError"]

\* `if cached:` -- None and empty bytes are falsy; json.dumps never returns "".
Truthy(c) == c.t # "nil"

NoResult == [t |-> "none"]
Returned(d) == [t |-> "value", d |-> d]
Raised(e) == [t |-> "error", e |-> e]

\* what `await loader()` can end with: the upstream fetch raising
\* (raise_for_status, a transport error or timeout in fetch_station_raw), or
\* build_slice's dict
LoaderOutcomes == {Raised("UpstreamError")} \cup {Returned(d) : d \in Slices}

(***************************************************************************)
(* cached_json                                                             *)
(***************************************************************************)
CacheInit ==
    /\ store = [k \in Keys |-> NoEntry]
    /\ locks = [k \in Keys |-> 0]
    /\ pc = [p \in Procs |-> "idle"]
    /\ pkey = [p \in Procs |-> "slice:a"]
    /\ data = [p \in Procs |-> NoData]
    /\ result = [p \in Procs |-> NoResult]
    /\ nreq = 0
    /\ loaderCalls = [k \in Keys |-> 0]
    /\ clean = [k \in Keys |-> TRUE]

\* A request enters cached_json(key, ttl, loader).
Start(p, k) ==
    /\ pc[p] \in {"idle", "done", "failed"}
    /\ nreq < MaxReqs
    /\ nreq' = nreq + 1
    /\ pc' = [pc EXCEPT ![p] = "get1"]
    /\ pkey' = [pkey EXCEPT ![p] = k]
    /\ result' = [result EXCEPT ![p] = NoResult]
    /\ data' = [data EXCEPT ![p] = NoData]
    /\ UNCHANGED <<store, locks, loaderCalls, clean>>
    /\ UNCHANGED nonCacheVars

\* cache.py:9-13  cached = await r.get(key); a hit is deserialized and
\* returned, a hit that fails to deserialize goes on to the delete, a miss
\* goes on to the lock.
Get1(p) ==
    /\ pc[p] = "get1"
    /\ LET cached == store[pkey[p]]
           loaded == json_loads(cached)
       IN  IF Truthy(cached)
           THEN IF loaded.t = "value"
                THEN /\ pc' = [pc EXCEPT ![p] = "done"]
                     /\ result' = [result EXCEPT ![p] = Returned(loaded.d)]
                ELSE /\ pc' = [pc EXCEPT ![p] = "del"]
                     /\ UNCHANGED result
           ELSE /\ pc' = [pc EXCEPT ![p] = "lock"]
                /\ UNCHANGED result
    /\ UNCHANGED <<store, locks, pkey, data, nreq, loaderCalls, clean>>
    /\ UNCHANGED nonCacheVars

\* cache.py:15  await r.delete(key): whatever the key holds by now is removed
Delete(p) ==
    /\ pc[p] = "del"
    /\ store' = [store EXCEPT ![pkey[p]] = NoEntry]
    /\ pc' = [pc EXCEPT ![p] = "lock"]
    /\ UNCHANGED <<locks, pkey, data, result, nreq, loaderCalls, clean>>
    /\ UNCHANGED nonCacheVars

\* a lock table that hands every caller a lock of its own
CanAcquireFresh(k) == TRUE

\* cache.py:17-18  the key's lock can be taken when no request holds it
CanAcquire(k) == locks[k] = 0

\* cache.py:17-18  lock = _locks.setdefault(key, asyncio.Lock()); async with lock
Acquire(p) ==
    /\ pc[p] = "lock"
    /\ CanAcquire(pkey[p])
    /\ locks' = [locks EXCEPT ![pkey[p]] = p]
    /\ pc' = [pc EXCEPT ![p] = "get2"]
    /\ UNCHANGED <<store, pkey, data, result, nreq, loaderCalls, clean>>
    /\ UNCHANGED nonCacheVars

\* a lock released by a plain release() after the body, which a raise skips
ExitLockNoFinally(k, raised) == IF raised THEN locks ELSE [locks EXCEPT ![k] = 0]

\* cache.py:18  leaving `async with lock`, by return or by exception
ExitLock(k, raised) == [locks EXCEPT ![k] = 0]

\* cache.py:19-23  the re-read under the lock: a hit is deserialized with no
\* try around it; a miss calls the loader.
Get2(p) ==
    /\ pc[p] = "get2"
    /\ LET k == pkey[p]
           cached == store[k]
           loaded == json_loads(cached)
       IN  IF Truthy(cached)
           THEN IF loaded.t = "value"
                THEN /\ pc' = [pc EXCEPT ![p] = "done"]
                     /\ result' = [result EXCEPT ![p] = Returned(loaded.d)]
                     /\ locks' = ExitLock(k, FALSE)
                     /\ UNCHANGED loaderCalls
                ELSE /\ pc' = [pc EXCEPT ![p] = "failed"]
                     /\ result' = [result EXCEPT ![p] = Raised(loaded.t)]
                     /\ locks' = ExitLock(k, TRUE)
                     /\ UNCHANGED loaderCalls
           ELSE /\ pc' = [pc EXCEPT ![p] = "loader"]
                /\ loaderCalls' = [loaderCalls EXCEPT ![k] = @ + 1]
                /\ UNCHANGED <<result, locks>>
    /\ UNCHANGED <<store, pkey, data, nreq, clean>>
    /\ UNCHANGED nonCacheVars

\* cache.py:23-24  data = await loader() ends; json.dumps(data) is evaluated
\* before r.set is awaited. A raise of either leaves the `async with`.
LoaderEnd(p) ==
    /\ pc[p] = "loader"
    /\ \E o \in LoaderOutcomes :
         LET k == pkey[p] IN
         IF o.t = "error"
         THEN /\ pc' = [pc EXCEPT ![p] = "failed"]
              /\ result' = [result EXCEPT ![p] = o]
              /\ locks' = ExitLock(k, TRUE)
              /\ clean' = [clean EXCEPT ![k] = FALSE]
              /\ UNCHANGED data
         ELSE IF json_dumps(o.d).t = "TypeError"
         THEN /\ pc' = [pc EXCEPT ![p] = "failed"]
              /\ result' = [result EXCEPT ![p] = Raised("TypeError")]
              /\ locks' = ExitLock(k, TRUE)
              /\ UNCHANGED <<data, clean>>
         ELSE /\ pc' = [pc EXCEPT ![p] = "set"]
              /\ data' = [data EXCEPT ![p] = o.d]
              /\ UNCHANGED <<result, locks, clean>>
    /\ UNCHANGED <<store, pkey, nreq, loaderCalls>>
    /\ UNCHANGED nonCacheVars

\* cache.py:24-25  await r.set(key, json.dumps(data), ex=ttl); return data
Set(p) ==
    /\ pc[p] = "set"
    /\ store' = [store EXCEPT ![pkey[p]] = json_dumps(data[p])]
    /\ result' = [result EXCEPT ![p] = Returned(data[p])]
    /\ locks' = ExitLock(pkey[p], FALSE)
    /\ pc' = [pc EXCEPT ![p] = "done"]
    /\ UNCHANGED <<pkey, data, nreq, loaderCalls, clean>>
    /\ UNCHANGED nonCacheVars

\* Redis drops an entry when its TTL (ex=ttl) runs out.
Expire(k) ==
    /\ store[k] # NoEntry
    /\ store' = [store EXCEPT ![k] = NoEntry]
    /\ clean' = [clean EXCEPT ![k] = FALSE]
    /\ UNCHANGED <<locks, pc, pkey, data, result, nreq, loaderCalls>>
    /\ UNCHANGED nonCacheVars

\* Another writer of the store leaves bytes that are no JSON under the key.
Corrupt(k) ==
    /\ store[k] # CorruptBytes
    /\ store' = [store EXCEPT ![k] = CorruptBytes]
    /\ clean' = [clean EXCEPT ![k] = FALSE]
    /\ UNCHANGED <<locks, pc, pkey, data, result, nreq, loaderCalls>>
    /\ UNCHANGED nonCacheVars

CacheNext ==
    \/ \E p \in Procs, k \in Keys : Start(p, k)
    \/ \E p \in Procs : Get1(p)
    \/ \E p \in Procs : Delete(p)
    \/ \E p \in Procs : Acquire(p)
    \/ \E p \in Procs : Get2(p)
    \/ \E p \in Procs : LoaderEnd(p)
    \/ \E p \in Procs : Set(p)
    \/ \E k \in Keys : Expire(k)
    \/ \E k \in Keys : Corrupt(k)

(***************************************************************************)
(* fetch_station_raw                                                       *)
(* A document version v >= 1 stands for the body the upstream serves as    *)
(* its v-th revision, and for the ETag and Last-Modified of that revision. *)
(* In kv, 0 is a key that holds nothing and EmptyText is the text "".      *)
(***************************************************************************)
EmptyText == -1

\* `if etag:`, `if last:`, `if cached:` -- None and b"" are falsy
TruthyBytes(b) == b > 0

\* an older httpx, whose raise_for_status raised for 4xx and 5xx only
RaiseForStatusClientServerOnly(status) == status >= 400

\* upstream.py:21  resp.raise_for_status(): httpx raises HTTPStatusError for
\* every status that is not 2xx
RaiseForStatus(status) == ~(status >= 200 /\ status <= 299)

NoResp == [status |-> 0, ver |-> 0]
NoFetchResult == [t |-> "none", body |-> 0]

\* the validators a 200 response may carry: ETag, Last-Modified, both, none
HeaderSets == SUBSET {"ETag", "Last-Modified"}

\* The upstream's answer to a GET with the validators `inm` (If-None-Match)
\* and `ims` (If-Modified-Since), 0 when the header is not sent: 304 only to
\* a validator that matches the current revision, If-None-Match taking
\* precedence (RFC 7232); 200 with the current revision otherwise.
UpstreamStatus(inm, ims) ==
    IF inm # 0 THEN (IF inm = upVer THEN 304 ELSE 200)
    ELSE IF ims # 0 THEN (IF ims >= upVer THEN 304 ELSE 200)
    ELSE 200

FetchIdle ==
    /\ kv = [etag |-> 0, lastmod |-> 0, raw |-> 0]
    /\ upVer = 1
    /\ upHdrs = {}
    /\ fpc = [p \in Procs |-> "idle"]
    /\ etag = [p \in Procs |-> 0]
    /\ last = [p \in Procs |-> 0]
    /\ resp = [p \in Procs |-> NoResp]
    /\ fres = [p \in Procs |-> NoFetchResult]
    /\ nfetch = 0

FetchInit ==
    /\ kv = [etag |-> 0, lastmod |-> 0, raw |-> 0]
    /\ upVer = 1
    /\ upHdrs \in HeaderSets
    /\ fpc = [p \in Procs |-> "idle"]
    /\ etag = [p \in Procs |-> 0]
    /\ last = [p \in Procs |-> 0]
    /\ resp = [p \in Procs |-> NoResp]
    /\ fres = [p \in Procs |-> NoFetchResult]
    /\ nfetch = 0

\* a loader calls fetch_station_raw(station_id)
FStart(p) ==
    /\ fpc[p] \in {"idle", "done", "failed"}
    /\ nfetch < MaxReqs
    /\ nfetch' = nfetch + 1
    /\ fpc' = [fpc EXCEPT ![p] = "etag"]
    /\ etag' = [etag EXCEPT ![p] = 0]
    /\ last' = [last EXCEPT ![p] = 0]
    /\ resp' = [resp EXCEPT ![p] = NoResp]
    /\ fres' = [fres EXCEPT ![p] = NoFetchResult]
    /\ UNCHANGED <<kv, upVer, upHdrs>>
    /\ UNCHANGED nonFetchVars

\* upstream.py:9  etag = await r.get(f"etag:{station_id}")
FGetETag(p) ==
    /\ fpc[p] = "etag"
    /\ etag' = [etag EXCEPT ![p] = kv.etag]
    /\ fpc' = [fpc EXCEPT ![p] = "last"]
    /\ UNCHANGED <<kv, upVer, upHdrs, last, resp, fres, nfetch>>
    /\ UNCHANGED nonFetchVars

\* upstream.py:10  last = await r.get(f"lastmod:{station_id}")
FGetLast(p) ==
    /\ fpc[p] = "last"
    /\ last' = [last EXCEPT ![p] = kv.lastmod]
    /\ fpc' = [fpc EXCEPT ![p] = "http"]
    /\ UNCHANGED <<kv, upVer, upHdrs, etag, resp, fres, nfetch>>
    /\ UNCHANGED nonFetchVars

\* upstream.py:23-28  the next await after the response (or after a write):
\* a header the response does not carry is skipped without an await
AfterResponse(hdrs) ==
    IF "ETag" \in hdrs THEN "setetag"
    ELSE IF "Last-Modified" \in hdrs THEN "setlast"
    ELSE "setraw"

AfterETag(hdrs) == IF "Last-Modified" \in hdrs THEN "setlast" ELSE "setraw"

\* upstream.py:11-17,21  the conditional GET. A transport error or timeout
\* raises out of client.get; a status that is neither 2xx nor 304 raises at
\* raise_for_status.
FHttp(p) ==
    /\ fpc[p] = "http"
    /\ LET inm == IF TruthyBytes(etag[p]) THEN etag[p] ELSE 0
           ims == IF TruthyBytes(last[p]) THEN last[p] ELSE 0
           status == UpstreamStatus(inm, ims)
       IN  \/ /\ resp' = [resp EXCEPT ![p] = [status |-> 500, ver |-> 0]]
              /\ RaiseForStatus(500)
              /\ fpc' = [fpc EXCEPT ![p] = "failed"]
              /\ fres' = [fres EXCEPT ![p] = [t |-> "UpstreamError", body |-> 0]]
           \/ /\ status = 304
              /\ resp' = [resp EXCEPT ![p] = [status |-> 304, ver |-> upVer]]
              /\ fpc' = [fpc EXCEPT ![p] = "raw304"]
              /\ UNCHANGED fres
           \/ /\ status = 200
              /\ ~RaiseForStatus(200)
              /\ resp' = [resp EXCEPT ![p] = [status |-> 200, ver |-> upVer]]
              /\ fpc' = [fpc EXCEPT ![p] = AfterResponse(upHdrs)]
              /\ UNCHANGED fres
    /\ UNCHANGED <<kv, upVer, upHdrs, etag, last, nfetch>>
    /\ UNCHANGED nonFetchVars

\* upstream.py:18-21  cached = await r.get(f"raw:{station_id}") after a 304:
\* a truthy body is returned; otherwise raise_for_status() decides, and a
\* 304 that does not raise goes on to upstream.py:23-29 with the 304's
\* validators and its empty text.
FRaw304(p) ==
    /\ fpc[p] = "raw304"
    /\ LET cached == kv.raw
       IN  IF TruthyBytes(cached)
           THEN /\ fpc' = [fpc EXCEPT ![p] = "done"]
                /\ fres' = [fres EXCEPT ![p] = [t |-> "cached", body |-> cached]]
           ELSE IF RaiseForStatus(304)
           THEN /\ fpc' = [fpc EXCEPT ![p] = "failed"]
                /\ fres' = [fres EXCEPT ![p] = [t |-> "HTTPStatusError304", body |-> 0]]
           ELSE /\ fpc' = [fpc EXCEPT ![p] = AfterResponse(upHdrs)]
                /\ UNCHANGED fres
    /\ UNCHANGED <<kv, upVer, upHdrs, etag, last, resp, nfetch>>
    /\ UNCHANGED nonFetchVars

\* upstream.py:23-24  await r.set(f"etag:{station_id}", e) -- no TTL
FSetETag(p) ==
    /\ fpc[p] = "setetag"
    /\ kv' = [kv EXCEPT !.etag = resp[p].ver]
    /\ fpc' = [fpc EXCEPT ![p] = AfterETag(upHdrs)]
    /\ UNCHANGED <<upVer, upHdrs, etag, last, resp, fres, nfetch>>
    /\ UNCHANGED nonFetchVars

\* upstream.py:25-26  await r.set(f"lastmod:{station_id}", l) -- no TTL
FSetLast(p) ==
    /\ fpc[p] = "setlast"
    /\ kv' = [kv EXCEPT !.lastmod = resp[p].ver]
    /\ fpc' = [fpc EXCEPT ![p] = "setraw"]
    /\ UNCHANGED <<upVer, upHdrs, etag, last, resp, fres, nfetch>>
    /\ UNCHANGED nonFetchVars

\* resp.text: the document of a 200, the empty text of a 304
ResponseText(rp) == IF rp.status = 200 THEN rp.ver ELSE EmptyText

\* upstream.py:28-29  await r.set(f"raw:{station_id}", resp.text,
\* ex=settings.CACHE_TTL_RAW); return resp.text
FSetRaw(p) ==
    /\ fpc[p] = "setraw"
    /\ kv' = [kv EXCEPT !.raw = ResponseText(resp[p])]
    /\ fpc' = [fpc EXCEPT ![p] = "done"]
    /\ fres' = [fres EXCEPT ![p] = [t |-> "fresh", body |-> ResponseText(resp[p])]]
    /\ UNCHANGED <<upVer, upHdrs, etag, last, resp, nfetch>>
    /\ UNCHANGED nonFetchVars

\* config.py:14  "raw:S" is dropped when CACHE_TTL_RAW runs out; "etag:S" and
\* "lastmod:S" are set without a TTL and stay.
ExpireRaw ==
    /\ kv.raw # 0
    /\ kv' = [kv EXCEPT !.raw = 0]
    /\ UNCHANGED <<upVer, upHdrs, fpc, etag, last, resp, fres, nfetch>>
    /\ UNCHANGED nonFetchVars

\* the upstream publishes a new revision of the station's document
Publish ==
    /\ upVer < MaxVer
    /\ upVer' = upVer + 1
    /\ UNCHANGED <<kv, upHdrs, fpc, etag, last, resp, fres, nfetch>>
    /\ UNCHANGED nonFetchVars

FetchNext ==
    \/ \E p \in Procs : FStart(p)
    \/ \E p \in Procs : FGetETag(p)
    \/ \E p \in Procs : FGetLast(p)
    \/ \E p \in Procs : FHttp(p)
    \/ \E p \in Procs : FRaw304(p)
    \/ \E p \in Procs : FSetETag(p)
    \/ \E p \in Procs : FSetLast(p)
    \/ \E p \in Procs : FSetRaw(p)
    \/ ExpireRaw
    \/ Publish

(***************************************************************************)
(* normalize_rowwise                                                       *)
(* A JSON value, as json.loads returns it, is a record tagged by its       *)
(* Python type. A finite number is g * 10^9 + u (two limbs, so that the    *)
(* 1e12 of _to_iso is in range); json.loads also returns NaN, Infinity and *)
(* -Infinity (the literals, or a float literal such as 1e400) and ints of  *)
(* any size.  A Python dict is a function from its keys.                   *)
(***************************************************************************)
None == [ty |-> "null"]
JBool(b) == [ty |-> "bool", b |-> b]
JNum(g, u) == [ty |-> "num", g |-> g, u |-> u]
JNaN == [ty |-> "nan"]
JInf(neg) == [ty |-> "inf", neg |-> neg]
\* an int beyond the range of a float, such as 10**400
JBig == [ty |-> "bigint"]
JStr(str) == [ty |-> "str", s |-> str]
JList(l) == [ty |-> "list", l |-> l]
JDict(d) == [ty |-> "dict", d |-> d]

EmptyDict == [k \in {} |-> None]

\* isinstance(v, (int, float)): bool is a subclass of int
IsIntOrFloat(v) == v.ty \in {"num", "bool", "nan", "inf", "bigint"}

\* normalize.py:4-5
is_num(v) == IsIntOrFloat(v) /\ v.ty # "nan" /\ v.ty # "inf"

\* the strings of the model, by what float(s) makes of them: a finite
\* number, nan, or ValueError
StrFloat(str) ==
    CASE str = "1"   -> [kind |-> "set", v |-> JNum(0, 1)]
      [] str = " 2 " -> [kind |-> "set", v |-> JNum(0, 2)]
      [] str = "nan" -> [kind |-> "set", v |-> JNaN]
      [] OTHER       -> [kind |-> "skip", v |-> None]

\* float(v) of an int or float: an int beyond the float range raises
\* OverflowError
Float(v) ==
    CASE v.ty = "bool"   -> [kind |-> "set", v |-> JNum(0, IF v.b THEN 1 ELSE 0)]
      [] v.ty = "bigint" -> [kind |-> "raise", v |-> None]
      [] OTHER           -> [kind |-> "set", v |-> v]

\* normalize.py:54-59 (and 84-89, 115-120): what a field value adds to the row
Admit(v) ==
    IF is_num(v) THEN Float(v)
    ELSE IF v.ty = "str"
    THEN LET fv == StrFloat(v.s)
         IN  IF fv.kind = "set" /\ is_num(fv.v) THEN fv ELSE [kind |-> "skip", v |-> None]
    ELSE [kind |-> "skip", v |-> None]

\* 1e12 = MsThresholdG * 10^9
MsThresholdG == 1000
\* datetime.fromtimestamp accepts up to 9999-12-31T23:59:59.999999Z, which is
\* MaxMsG * 10^9 + MaxMsU milliseconds
MaxMsG == 253402
MaxMsU == 300799999

NoIso == [kind |-> "none", g |-> 0, u |-> 0]
RaiseIso == [kind |-> "raise", g |-> 0, u |-> 0]
Iso(g, u) == [kind |-> "iso", g |-> g, u |-> u]

\* the instant in milliseconds as its UTC isoformat(): one string per
\* instant, and the strings order as the instants do
IsoOfMs(g, u) ==
    IF g < MaxMsG \/ (g = MaxMsG /\ u <= MaxMsU) THEN Iso(g, u) ELSE NoIso

\* normalize.py:16-23: the strings of the model, by what
\* datetime.fromisoformat(t.replace('Z', '+00:00')) makes of them
StrIso(str) ==
    CASE str = "1970-01-01T00:00:01Z"      -> Iso(0, 1000)
      [] str = "1970-01-01T00:00:01"       -> Iso(0, 1000)
      [] str = "1970-01-01T01:00:02+01:00" -> Iso(0, 2000)
      [] OTHER                             -> NoIso

\* normalize.py:7-24  _to_iso: the ISO string, None, or the exception that
\* int() raises at line 11, outside the try, on NaN and on an infinity
to_iso(t) ==
    CASE t.ty = "nan"    -> RaiseIso
      [] t.ty = "inf"    -> RaiseIso
      [] t.ty = "bigint" -> NoIso
      [] t.ty = "bool"   -> Iso(0, IF t.b THEN 1000 ELSE 0)
      [] t.ty = "num"    ->
            IF t.g > MsThresholdG \/ (t.g = MsThresholdG /\ t.u > 0)
            THEN IsoOfMs(t.g, t.u)
            ELSE IsoOfMs(1000 * t.g, 1000 * t.u)
      [] t.ty = "str"    -> StrIso(t.s)
      [] OTHER           -> NoIso

\* ("timestamp","time","ts","date","datetime"), in the order tried
TimeKeyCandidates == <<"timestamp", "time", "ts", "date", "datetime">>

\* the first candidate that is a key of `keys`, or "" when none is
FirstCandidate(keys) ==
    LET hits == {i \in 1..Len(TimeKeyCandidates) : TimeKeyCandidates[i] \in keys}
    IN  IF hits = {} THEN ""
        ELSE TimeKeyCandidates[CHOOSE i \in hits : \A j \in hits : i <= j]

\* a canonical row
RowOk(r) == [kind |-> "row", row |-> r]
RowSkip == [kind |-> "skip", row |-> [k \in {} |-> None]]
RowRaise == [kind |-> "raise", row |-> [k \in {} |-> None]]

\* normalize.py:49-60 (and 77-90, 107-121): one point, given as the time
\* value and the dict of its other fields
BuildRow(t, fields) ==
    LET iso == to_iso(t)
        keys == DOMAIN fields
        admitted == {k \in keys : Admit(fields[k]).kind = "set"}
    IN  IF iso.kind = "raise" THEN RowRaise
        ELSE IF iso.kind = "none" THEN RowSkip
        ELSE IF \E k \in keys : Admit(fields[k]).kind = "raise" THEN RowRaise
        ELSE RowOk([k \in {"timestamp"} \cup admitted |->
                      IF k \in admitted THEN Admit(fields[k]).v
                      ELSE [ty |-> "iso", g |-> iso.g, u |-> iso.u]])

\* r["timestamp"] < q["timestamp"], for two of one type
KeyLess(r, q) ==
    \/ r["timestamp"].g < q["timestamp"].g
    \/ (r["timestamp"].g = q["timestamp"].g /\ r["timestamp"].u < q["timestamp"].u)

RECURSIVE InsertStable(_, _)
InsertStable(sorted, r) ==
    IF Len(sorted) = 0 THEN <<r>>
    ELSE IF KeyLess(r, sorted[Len(sorted)])
    THEN Append(InsertStable(SubSeq(sorted, 1, Len(sorted) - 1), r), sorted[Len(sorted)])
    ELSE Append(sorted, r)

RECURSIVE SortRows(_)
SortRows(rows) ==
    IF Len(rows) <= 1 THEN rows
    ELSE InsertStable(SortRows(SubSeq(rows, 1, Len(rows) - 1)), rows[Len(rows)])

Series(rows) == [ok |-> TRUE, rows |-> rows]
Raises == [ok |-> FALSE, rows |-> <<>>]

RECURSIVE KeepRows(_)
KeepRows(built) ==
    IF Len(built) = 0 THEN <<>>
    ELSE IF built[1].kind = "row" THEN <<built[1].row>> \o KeepRows(Tail(built))
    ELSE KeepRows(Tail(built))

\* normalize.py:47-62 (and 76-92, 106-123): the loop over the points and
\* rows.sort(key=lambda r: r["timestamp"]), which is stable and raises
\* TypeError when it compares a str with a float
Collect(built) ==
    LET rows == KeepRows(built)
        types == {rows[i]["timestamp"].ty : i \in 1..Len(rows)}
    IN  IF \E i \in 1..Len(built) : built[i].kind = "raise" THEN Raises
        ELSE IF Cardinality(types) > 1 THEN Raises
        ELSE Series(SortRows(rows))

\* normalize.py:37-62  Case A: `points` is a list
CaseA(pts) ==
    LET tk0 == IF Len(pts) > 0 /\ pts[1].ty = "dict" THEN FirstCandidate(DOMAIN pts[1].d) ELSE ""
        tk == IF tk0 = "" THEN "timestamp" ELSE tk0
        built == [i \in 1..Len(pts) |->
                    IF pts[i].ty # "dict" THEN RowSkip
                    ELSE LET d == pts[i].d
                         IN  BuildRow(IF tk \in DOMAIN d THEN d[tk] ELSE None,
                                      [k \in DOMAIN d \ {tk} |-> d[k]])]
    IN  Collect(built)

\* normalize.py:65-92 and 97-123  Cases B and C: a dict of columns
Columnar(cols) ==
    LET tkey == FirstCandidate(DOMAIN cols)
    IN  IF tkey = "" THEN Series(<<>>)
        ELSE IF cols[tkey].ty # "list" THEN Series(<<>>)
        ELSE LET tarr == cols[tkey].l
                 built == [i \in 1..Len(tarr) |->
                             LET ks == {k \in DOMAIN cols \ {tkey} :
                                          cols[k].ty = "list" /\ i <= Len(cols[k].l)}
                             IN  BuildRow(tarr[i], [k \in ks |-> cols[k].l[i]])]
             IN  Collect(built)

\* normalize.py:26-125
normalize_rowwise(input_obj) ==
    IF input_obj.ty # "dict" THEN Series(<<>>)
    ELSE LET obj == input_obj.d
             pts == IF "points" \in DOMAIN obj THEN obj["points"] ELSE None
         IN  IF pts.ty = "list" THEN CaseA(pts.l)
             ELSE IF pts.ty = "dict" THEN Columnar(pts.d)
             ELSE IF DOMAIN obj # {} /\ \A k \in DOMAIN obj : obj[k].ty = "list"
             THEN Columnar(obj)
             ELSE Series(<<>>)

(***************************************************************************)
(* The documents normalize_rowwise is applied to.                          *)
(***************************************************************************)
\* time values: 1 s, 2 s, 1.5e12 + 1 ms, ISO strings, and values _to_iso
\* cannot convert
TimeVals ==
    {JNum(0, 1), JNum(0, 2), JNum(1500, 1), JStr("1970-01-01T00:00:01Z"),
     JStr("yesterday"), None, JNaN}

\* field values
FieldVals ==
    {JNum(0, 1), JBool(TRUE), JStr(" 2 "), JStr("nan"), None, JBig}

\* the name of the data set's time column
TimeName == "ts"

\* the names of the data set's other columns; "time" is a time-key candidate
\* tried before "ts"
ColNameSets == {{}, {"a"}, {"a", "points"}, {"a", "time"}}

\* a second column holds the row number
RowNumber(i) == JNum(0, i)

DataSet(times, names, a) ==
    [times |-> times,
     cols |-> [c \in names |-> IF c = "a" THEN a ELSE [i \in DOMAIN times |-> RowNumber(i)]]]

PointOf(ds, i) ==
    JDict([k \in {TimeName} \cup DOMAIN ds.cols |->
             IF k = TimeName THEN ds.times[i] ELSE ds.cols[k][i]])

ColumnsOf(ds) ==
    [k \in {TimeName} \cup DOMAIN ds.cols |->
       IF k = TimeName THEN JList(ds.times) ELSE JList(ds.cols[k])]

\* {"points": [{...}, ...]}
EncRow(ds) == JDict([k \in {"points"} |-> JList([i \in DOMAIN ds.times |-> PointOf(ds, i)])])
\* {"points": {"ts": [...], "a": [...]}}
EncCol(ds) == JDict([k \in {"points"} |-> JDict(ColumnsOf(ds))])
\* {"ts": [...], "a": [...]}
EncTop(ds) == JDict(ColumnsOf(ds))

Dict1(k, v) == [x \in {k} |-> v]
Dict2(k1, v1, k2, v2) == [x \in {k1, k2} |-> IF x = k1 THEN v1 ELSE v2]

\* documents of other shapes
OtherDocs ==
    << None,
       JNum(0, 1),
       JStr("points"),
       JList(<<JNum(0, 1)>>),
       JDict(EmptyDict),
       JDict(Dict1("points", None)),
       JDict(Dict1("points", JStr("x"))),
       JDict(Dict1("points", JList(<<JNum(0, 1), None, JList(<<>>)>>))),
       JDict(Dict1("points", JList(<<JDict(Dict1("time", JNum(0, 2))),
                                     JDict(Dict2("time", JNum(0, 1), "timestamp", JNum(0, 5)))>>))),
       JDict(Dict1("points", JList(<<JDict(Dict2("ts", JInf(TRUE), "a", JNum(0, 1)))>>))),
       JDict(Dict1("points", JList(<<JDict(Dict2("ts", JNum(0, 1), "a", JDict(Dict1("b", JNum(0, 1)))))>>))),
       JDict(Dict1("points", JDict(Dict1("a", JList(<<JNum(0, 1)>>))))),
       JDict(Dict1("points", JDict(Dict1("time", JNum(0, 5))))),
       JDict(Dict1("points", JDict(Dict2("time", JList(<<JNum(0, 2), JNum(0, 1)>>),
                                         "a", JList(<<JNum(0, 7)>>))))),
       JDict(Dict2("time", JList(<<JNum(0, 1)>>), "a", JNum(0, 2))),
       JDict(Dict2("date", JList(<<JNum(1000, 0), JInf(FALSE)>>), "a", JList(<<>>))) >>

NotNormalized == [done |-> FALSE, row |-> Series(<<>>), col |-> Series(<<>>), top |-> Series(<<>>)]
NoDoc == [done |-> FALSE, i |-> 0, out |-> Series(<<>>)]

NormIdle ==
    /\ nds = DataSet(<<>>, {}, <<>>)
    /\ nout = NotNormalized
    /\ ndoc = NoDoc

\* any data set of at most MaxRows rows
NormInit ==
    /\ \E n \in 0..MaxRows : \E names \in ColNameSets :
         \E times \in [1..n -> TimeVals] : \E a \in [1..n -> FieldVals] :
            nds = DataSet(times, names, a)
    /\ nout = NotNormalized
    /\ ndoc = NoDoc

\* normalize_rowwise applied to the three encodings of the data set
NormalizeDataSet ==
    /\ ~nout.done
    /\ nout' = [done |-> TRUE,
                row |-> normalize_rowwise(EncRow(nds)),
                col |-> normalize_rowwise(EncCol(nds)),
                top |-> normalize_rowwise(EncTop(nds))]
    /\ UNCHANGED <<nds, ndoc>>
    /\ UNCHANGED nonNormVars

\* normalize_rowwise applied to a document of another shape
NormalizeDoc ==
    /\ ~ndoc.done
    /\ \E i \in DOMAIN OtherDocs :
         ndoc' = [done |-> TRUE, i |-> i, out |-> normalize_rowwise(OtherDocs[i])]
    /\ UNCHANGED <<nds, nout>>
    /\ UNCHANGED nonNormVars

NormNext == NormalizeDataSet \/ NormalizeDoc

(***************************************************************************)
(* station_points: the slice key.                                          *)
(* A Python str is the sequence of its characters; an Optional[str] is     *)
(* None or a str.                                                          *)
(***************************************************************************)
PyNone == [some |-> FALSE, s |-> <<>>]
Some(str) == [some |-> TRUE, s |-> str]

\* str(None), which is what an f-string renders None as
StrOfNone == <<"N", "o", "n", "e">>

\* f"{x}" of an Optional[str]
Format(opt) == IF opt.some THEN opt.s ELSE StrOfNone

\* str.split(",")
RECURSIVE Split(_)
Split(str) ==
    LET commas == {i \in 1..Len(str) : str[i] = ","}
    IN  IF commas = {} THEN <<str>>
        ELSE LET i == CHOOSE c \in commas : \A d \in commas : c <= d
             IN  <<SubSeq(str, 1, i - 1)>> \o Split(SubSeq(str, i + 1, Len(str)))

\* str.strip()
RECURSIVE Strip(_)
Strip(str) ==
    IF str # <<>> /\ Head(str) = " " THEN Strip(Tail(str))
    ELSE IF str # <<>> /\ str[Len(str)] = " " THEN Strip(SubSeq(str, 1, Len(str) - 1))
    ELSE str

NonEmptyStr(str) == str # <<>>

\* points.py:17  the parsed variable list: None or a non-empty list of names
ParseVars(vars_param) ==
    LET pieces == Split(IF vars_param.some THEN vars_param.s ELSE <<>>)
        kept == SelectSeq([i \in DOMAIN pieces |-> Strip(pieces[i])], NonEmptyStr)
    IN  IF kept = <<>> THEN [some |-> FALSE, l |-> <<>>] ELSE [some |-> TRUE, l |-> kept]

\* repr of a list of str: ['a', 'b']
RECURSIVE ReprItems(_)
ReprItems(l) ==
    IF Len(l) = 0 THEN <<>>
    ELSE IF Len(l) = 1 THEN <<"'">> \o l[1] \o <<"'">>
    ELSE <<"'">> \o l[1] \o <<"'", ",", " ">> \o ReprItems(Tail(l))

FormatList(vlist) == IF vlist.some THEN <<"[">> \o ReprItems(vlist.l) \o <<"]">> ELSE StrOfNone

\* points.py:18  f"{station_id}|{start}|{end}|{vlist}|{resample}"
PreDigest(rq) ==
    rq.station_id \o <<"|">> \o Format(rq.start) \o <<"|">> \o Format(rq.end_param)
        \o <<"|">> \o FormatList(ParseVars(rq.vars_param)) \o <<"|">> \o Format(rq.resample)

\* hashlib.md5(...).hexdigest(), taken as free of collisions: the digest
\* stands for the string digested
md5(str) == str

\* points.py:18
SliceKey(rq) == <<"slice:">> \o md5(PreDigest(rq))

\* points.py:20-25 for a station whose document normalizes to no row:
\* build_slice returns the empty slice before it looks at start and end
loader(rq) ==
    [points_count |-> 0, station |-> rq.station_id,
     start_date |-> rq.start, end_date |-> rq.end_param]

StationIds == {<<"a">>, <<"a", "|", "a">>}
StartParams == {PyNone, Some(StrOfNone), Some(<<"a">>), Some(<<"a", "|", "a">>)}
EndParams == {PyNone, Some(<<"a">>)}
VarsParams == {PyNone, Some(<<"a">>), Some(<<" ", "a", ",">>), Some(<<"a", ",", "b">>)}
ResampleParams == {PyNone, Some(StrOfNone)}

Requests ==
    [station_id : StationIds, start : StartParams, end_param : EndParams,
     vars_param : VarsParams, resample : ResampleParams]

Reqs == {1, 2}

NotReturned == [done |-> FALSE, key |-> <<>>, out |-> loader([station_id |-> <<>>, start |-> PyNone, end_param |-> PyNone])]

KeyIdle ==
    /\ kreq = [i \in Reqs |-> [station_id |-> <<"a">>, start |-> PyNone, end_param |-> PyNone,
                               vars_param |-> PyNone, resample |-> PyNone]]
    /\ kstore = {}
    /\ kres = [i \in Reqs |-> NotReturned]

KeyInit ==
    /\ kreq \in [Reqs -> Requests]
    /\ kstore = {}
    /\ kres = [i \in Reqs |-> NotReturned]

\* points.py:17-27 with cache.py:8-25, one request at a time: the cached
\* entry when the key holds one, else the loader's slice, stored
StationPoints(i) ==
    /\ ~kres[i].done
    /\ LET key == SliceKey(kreq[i])
           hit == {e \in kstore : e.key = key}
       IN  IF hit # {}
           THEN /\ kres' = [kres EXCEPT ![i] = [done |-> TRUE, key |-> key,
                                                 out |-> (CHOOSE e \in hit : TRUE).val]]
                /\ UNCHANGED kstore
           ELSE /\ kstore' = kstore \cup {[key |-> key, val |-> loader(kreq[i])]}
                /\ kres' = [kres EXCEPT ![i] = [done |-> TRUE, key |-> key,
                                                 out |-> loader(kreq[i])]]
    /\ UNCHANGED kreq
    /\ UNCHANGED nonKeyVars

\* the 5 minute TTL of a slice entry runs out
ExpireSlice ==
    /\ \E e \in kstore : kstore' = kstore \ {e}
    /\ UNCHANGED <<kreq, kres>>
    /\ UNCHANGED nonKeyVars

KeyNext == (\E i \in Reqs : StationPoints(i)) \/ ExpireSlice

Init == CacheInit /\ FetchIdle /\ NormIdle /\ KeyIdle

Next == CacheNext

Spec == Init /\ [][Next]_vars

InitFetch == FetchInit /\ CacheInit /\ NormIdle /\ KeyIdle

NextFetch == FetchNext

SpecFetch == InitFetch /\ [][NextFetch]_vars

InitNorm == NormInit /\ CacheInit /\ FetchIdle /\ KeyIdle

NextNorm == NormNext

SpecNorm == InitNorm /\ [][NextNorm]_vars

InitKey == KeyInit /\ CacheInit /\ FetchIdle /\ NormIdle

NextKey == KeyNext

SpecKey == InitKey /\ [][NextKey]_vars

(***************************************************************************)
(* Claims about cached_json, checked under Spec.                           *)
(***************************************************************************)
\* requests of key k that are inside cached_json or have left it
CallsOf(k) == {p \in Procs : pkey[p] = k /\ pc[p] # "idle"}

\* C1: single-flight. For the requests that call cached_json with one key
\* that held no entry, while no loader raises and no entry of the key expires
\* or is written from outside: the loader is invoked at most once, every call
\* returns, and all return the same value.
C1_SingleFlight ==
    \A k \in Keys :
        clean[k] =>
            /\ loaderCalls[k] <= 1
            /\ \A p \in CallsOf(k) : pc[p] # "failed"
            /\ \A p, q \in CallsOf(k) :
                 (pc[p] = "done" /\ pc[q] = "done") => result[p] = result[q]

\* C2: corrupted cache recovery. No deserialization error of a stored value
\* reaches the caller of cached_json, whenever the corrupt bytes were written.
C2_NoDecodeErrorReachesCaller ==
    \A p \in Procs : result[p] # Raised("JSONDecodeError")

\* the key's lock is held only by a request inside the `async with` of that key
LockHeldInside ==
    \A k \in Keys :
        locks[k] # 0 => (pkey[locks[k]] = k /\ pc[locks[k]] \in {"get2", "loader", "set"})

\* C3: a failed loader is never cached and never blocks later requests. The
\* step in which the loader (or the serialization of its value) raises writes
\* no entry, hands the error to that caller and leaves the key's lock free; no
\* request receives an upstream error but from the loader it ran itself; a
\* request that is not inside the `async with` holds no lock.
C3_FailedLoaderNotCached ==
    [][ /\ \A p \in Procs :
             /\ (pc[p] = "loader" /\ pc'[p] = "failed") =>
                   /\ store' = store
                   /\ locks'[pkey[p]] = 0
                   /\ result'[p] \in {Raised("UpstreamError"), Raised("TypeError")}
             /\ (result'[p] = Raised("UpstreamError") /\ result[p] # result'[p]) =>
                   pc[p] = "loader"
        /\ LockHeldInside /\ LockHeldInside'
      ]_vars

\* C3 witness: a request failed in its loader, and a later holder of the same
\* key's lock is running the loader itself.
C3_Witness ==
    \E p, q \in Procs :
        /\ p # q /\ pkey[p] = pkey[q]
        /\ pc[p] = "failed" /\ result[p] = Raised("UpstreamError")
        /\ pc[q] = "loader"
        /\ store[pkey[p]] = NoEntry

\* C5: per-key mutual exclusion. At most one loader invocation is in progress
\* for any key.
C5_MutualExclusion ==
    \A k \in Keys : Cardinality({p \in Procs : pkey[p] = k /\ pc[p] = "loader"}) <= 1

\* C5 witness: a loader runs for a key while another request of the same key
\* waits for the lock.
C5_Witness ==
    \E p, q \in Procs :
        /\ p # q /\ pkey[p] = pkey[q]
        /\ pc[p] = "loader" /\ pc[q] = "lock"

(***************************************************************************)
(* Claims about fetch_station_raw, checked under SpecFetch.                *)
(***************************************************************************)
\* the call is between the first and the last of its writes (upstream.py:24-28)
InWrites(p) == fpc[p] \in {"setetag", "setlast", "setraw"}

\* the validator the call sent with its conditional GET (0: none)
SentValidator(p) == IF TruthyBytes(etag[p]) THEN etag[p] ELSE last[p]

\* the call leaves the read of "raw:S" that follows a 304 (upstream.py:18-21)
Leaves304(p) == fpc[p] = "raw304" /\ fpc'[p] # "raw304"

\* C4 as stated: after a 304, with no raw body cached the call returns (an
\* absent or falsy value) instead of raising; with a raw body cached it
\* returns that body.
C4_304WithoutBodyReturns ==
    [][ \A p \in Procs :
          Leaves304(p) =>
             IF TruthyBytes(kv.raw)
             THEN fpc'[p] = "done" /\ fres'[p] = [t |-> "cached", body |-> kv.raw]
             ELSE fpc'[p] # "failed"
      ]_vars

\* C4 as amended: after a 304, with no (non-empty) raw body cached the call
\* raises the HTTPStatusError of raise_for_status and writes nothing; with a
\* raw body cached it returns that body and writes nothing.
C4_304WithoutBodyRaises ==
    [][ \A p \in Procs :
          Leaves304(p) =>
             /\ kv' = kv
             /\ IF TruthyBytes(kv.raw)
                THEN fpc'[p] = "done" /\ fres'[p] = [t |-> "cached", body |-> kv.raw]
                ELSE fpc'[p] = "failed" /\ fres'[p] = [t |-> "HTTPStatusError304", body |-> 0]
      ]_vars

\* C4 witness: one call was answered 304 with no raw body cached and raised,
\* another was answered 304 and returned the cached body.
C4_Witness ==
    \E p, q \in Procs :
        /\ fres[p].t = "HTTPStatusError304" /\ resp[p].status = 304
        /\ fres[q].t = "cached" /\ resp[q].status = 304

\* C8: validator/body consistency. Whenever no call is between its writes,
\* the stored etag / last_modified and the stored raw body are those of one
\* upstream response; and a 304 answered from the cache never returns a body
\* older than the revision the validator it sent describes.
C8_ValidatorBodyConsistent ==
    /\ (\A p \in Procs : ~InWrites(p)) =>
          /\ (kv.etag # 0 /\ kv.raw # 0) => kv.etag = kv.raw
          /\ (kv.lastmod # 0 /\ kv.raw # 0) => kv.lastmod = kv.raw
    /\ \A p \in Procs : fres[p].t = "cached" => fres[p].body >= SentValidator(p)

\* C9: whenever no call is between its writes, a stored etag or
\* last_modified comes with a stored raw body; and, the upstream answering
\* 304 only to a matching validator and entries expiring by their TTLs, no
\* call reaches the 304-with-no-cached-body state.
C9_ValidatorImpliesBody ==
    /\ (\A p \in Procs : ~InWrites(p)) =>
          ((kv.etag # 0 \/ kv.lastmod # 0) => kv.raw # 0)
    /\ \A p \in Procs : ~(fpc[p] = "raw304" /\ ~TruthyBytes(kv.raw))
    /\ \A p \in Procs : fres[p].t # "HTTPStatusError304"

(***************************************************************************)
(* Claims about normalize_rowwise (SpecNorm).                              *)
(***************************************************************************)
\* C6: normalize_rowwise never fails with an exception: whatever the
\* document, and whatever JSON values its time values and fields hold, it
\* returns a series.
C6_NeverRaises ==
    /\ nout.done => nout.row.ok /\ nout.col.ok /\ nout.top.ok
    /\ ndoc.done => ndoc.out.ok

\* a data set of a convertible time column and columns of finite numbers
WellFormed(ds) ==
    /\ \A i \in DOMAIN ds.times : to_iso(ds.times[i]).kind = "iso"
    /\ \A c \in DOMAIN ds.cols : \A i \in DOMAIN ds.cols[c] : ds.cols[c][i].ty = "num"

\* C7: shape equivalence: the row-wise list under "points", the columnar
\* object under "points" and the top-level columns of one data set (a time
\* column plus any set of named numeric columns) normalize to the same series.
C7_ShapeEquivalence ==
    (nout.done /\ WellFormed(nds)) => (nout.row = nout.col /\ nout.col = nout.top)

(***************************************************************************)
(* Claims about the slice key (SpecKey).                                   *)
(***************************************************************************)
\* the requests differ in station_id, start, end, the parsed variable list
\* or the resample rule
Differ(rq, sq) ==
    \/ rq.station_id # sq.station_id
    \/ rq.start # sq.start
    \/ rq.end_param # sq.end_param
    \/ ParseVars(rq.vars_param) # ParseVars(sq.vars_param)
    \/ rq.resample # sq.resample

\* C10: two station_points requests that differ in station_id, start, end,
\* the parsed variable list or the resample rule build different keys, and
\* each is returned the slice computed for itself, never the slice stored
\* for the other.
C10_KeySeparation ==
    \A i \in Reqs : \A j \in Reqs :
        (kres[i].done /\ kres[j].done /\ Differ(kreq[i], kreq[j])) =>
            /\ kres[i].key # kres[j].key
            /\ kres[i].out = loader(kreq[i])

====
